---- MODULE Spec2Model ----
(***************************************************************************)
(* samplellama: an Ollama-compatible HTTP front end that forwards chat and *)
(* generate requests to the MCP session currently attached.                *)
(*                                                                         *)
(* The module models                                                       *)
(*   - sessionHolder (main.go): the map of sessions, the latest pointer    *)
(*     and the sync.RWMutex guarding them, one step per lock section;      *)
(*   - the callers of the holder in main(): the InitializedHandler, the    *)
(*     goroutine it spawns, the stdio branch of main;                      *)
(*   - handleChat / handleGenerate, one step per blocking point.           *)
(*                                                                         *)
(* HolderSpec runs the holder under arbitrary callers (as the unit test    *)
(* TestSessionHolder drives it); Spec runs the program.                    *)
(***************************************************************************)
EXTENDS Integers, Sequences, FiniteSets, TLC

\* ------------------------------------------------------------------ bounds
NumEndpoints == 4   \* session objects the holder test creates
NumTasks == 2       \* goroutines calling the holder directly
NumSessions == 2    \* MCP sessions the SDK creates while the program runs
NumRequests == 1    \* inbound /api/chat and /api/generate requests
MaxMessages == 3    \* messages of a chat request given to the translation

\* ------------------------------------------------------- sessions and ids
\* Go's nil (a nil SamplingSession, an absent map key).
Nil == 0

\* Session objects. The last one is a second object carrying the id of the
\* first (a re-registration under the same identifier).
Endpoints == 1..NumEndpoints

\* SamplingSession.ID()
ID(e) == IF e = NumEndpoints THEN 1 ELSE e

Ids == {ID(e) : e \in Endpoints}

\* The sessions the MCP SDK hands to the program; their ids are distinct.
McpSessions == 1..NumSessions

\* ---------------------------------------------------------------- threads
Tasks == {<<"task", i>> : i \in 1..NumTasks}
ReqThreads == {<<"req", i>> : i \in 1..NumRequests}
InitThreads == {<<"init", s>> : s \in McpSessions}
ObsThreads == {<<"obs", s>> : s \in McpSessions}
MainThread == <<"main", 0>>
ProgThreads == ReqThreads \cup InitThreads \cup ObsThreads \cup {MainThread}
Threads == Tasks \cup ProgThreads

VARIABLES
  sessions,      \* sessionHolder.sessions: id -> session object, Nil = no entry
  latest,        \* sessionHolder.latest
  mu,            \* sessionHolder.mu: [w: writer holds it, r: number of readers]
  hpc,           \* per thread: where it is inside a holder method
  arg,           \* per thread: the argument of the holder method it is in
  pre,           \* per thread: the holder's fields when it took the write lock
  ret,           \* per thread: what its last get() returned
  mcpTransport,  \* the -mcp-transport flag
  sess,          \* per MCP session: "none", "open" or "closed"
  pc,            \* per program thread: where it is in its own code
  h              \* per request: the locals of the handler and the response

holderVars == <<sessions, latest, mu, hpc, arg, pre, ret>>
progVars == <<mcpTransport, sess, pc, h>>
vars == <<sessions, latest, mu, hpc, arg, pre, ret, mcpTransport, sess, pc, h>>

\* ---------------------------------------------------------- sessionHolder
\* newSessionHolder(): an empty map, latest nil, the mutex free.
EmptyMap == [i \in Ids |-> Nil]
NoPre == [sessions |-> EmptyMap, latest |-> Nil]

newSessionHolder ==
  /\ sessions = EmptyMap
  /\ latest = Nil
  /\ mu = [w |-> FALSE, r |-> 0]
  /\ hpc = [t \in Threads |-> "none"]
  /\ arg = [t \in Threads |-> Nil]
  /\ pre = [t \in Threads |-> NoPre]
  /\ ret = [t \in Threads |-> Nil]

\* The values of a map: the session objects it holds.
Values(m) == {m[i] : i \in {j \in Ids : m[j] # Nil}}

\* sync.RWMutex: Lock() proceeds when nobody holds the mutex, RLock() when no
\* writer holds it.
CanLockIgnoringReaders == ~mu.w
CanLock == ~mu.w /\ mu.r = 0
CanRLock == ~mu.w

Snapshot == [sessions |-> sessions, latest |-> latest]

\* set, first section: h.mu.Lock(); h.sessions[session.ID()] = session
setLockKeepExisting(t, e) ==
  /\ hpc[t] = "none"
  /\ CanLock
  /\ mu' = [mu EXCEPT !.w = TRUE]
  /\ sessions' = IF sessions[ID(e)] = Nil THEN [sessions EXCEPT ![ID(e)] = e] ELSE sessions
  /\ hpc' = [hpc EXCEPT ![t] = "set_latest"]
  /\ arg' = [arg EXCEPT ![t] = e]
  /\ pre' = [pre EXCEPT ![t] = Snapshot]
  /\ ret' = [ret EXCEPT ![t] = Nil]
  /\ UNCHANGED latest
setLock(t, e) ==
  /\ hpc[t] = "none"
  /\ CanLock
  /\ mu' = [mu EXCEPT !.w = TRUE]
  /\ sessions' = [sessions EXCEPT ![ID(e)] = e]
  /\ hpc' = [hpc EXCEPT ![t] = "set_latest"]
  /\ arg' = [arg EXCEPT ![t] = e]
  /\ pre' = [pre EXCEPT ![t] = Snapshot]
  /\ ret' = [ret EXCEPT ![t] = Nil]
  /\ UNCHANGED latest

\* set, second section: h.latest = session
setLatestFirstWins(t) ==
  /\ hpc[t] = "set_latest"
  /\ latest' = IF latest = Nil THEN arg[t] ELSE latest
  /\ hpc' = [hpc EXCEPT ![t] = "set_unlock"]
  /\ UNCHANGED <<sessions, mu, arg, pre, ret>>
setLatest(t) ==
  /\ hpc[t] = "set_latest"
  /\ latest' = arg[t]
  /\ hpc' = [hpc EXCEPT ![t] = "set_unlock"]
  /\ UNCHANGED <<sessions, mu, arg, pre, ret>>

\* the deferred h.mu.Unlock() of set and of remove
unlockKeepsLock(t) ==
  /\ hpc[t] \in {"set_unlock", "rm_unlock"}
  /\ hpc' = [hpc EXCEPT ![t] = "none"]
  /\ arg' = [arg EXCEPT ![t] = Nil]
  /\ pre' = [pre EXCEPT ![t] = NoPre]
  /\ UNCHANGED <<sessions, latest, mu, ret>>
unlock(t) ==
  /\ hpc[t] \in {"set_unlock", "rm_unlock"}
  /\ mu' = [mu EXCEPT !.w = FALSE]
  /\ hpc' = [hpc EXCEPT ![t] = "none"]
  /\ arg' = [arg EXCEPT ![t] = Nil]
  /\ pre' = [pre EXCEPT ![t] = NoPre]
  /\ UNCHANGED <<sessions, latest, ret>>

\* remove, first section: h.mu.Lock(); delete(h.sessions, sessionID)
removeLock(t, id) ==
  /\ hpc[t] = "none"
  /\ CanLock
  /\ mu' = [mu EXCEPT !.w = TRUE]
  /\ sessions' = [sessions EXCEPT ![id] = Nil]
  /\ hpc' = [hpc EXCEPT ![t] = "rm_check"]
  /\ arg' = [arg EXCEPT ![t] = id]
  /\ pre' = [pre EXCEPT ![t] = Snapshot]
  /\ ret' = [ret EXCEPT ![t] = Nil]
  /\ UNCHANGED latest

\* remove, second section: if the removed id was latest's, latest becomes nil
\* and then the first session the range over the map yields (Go leaves the
\* iteration order of a map unspecified: any remaining session).
removeCheckNoReassign(t) ==
  /\ hpc[t] = "rm_check"
  /\ latest' = latest
  /\ hpc' = [hpc EXCEPT ![t] = "rm_unlock"]
  /\ UNCHANGED <<sessions, mu, arg, pre, ret>>
removeCheckClearOnly(t) ==
  /\ hpc[t] = "rm_check"
  /\ latest' = IF latest # Nil /\ ID(latest) = arg[t] THEN Nil ELSE latest
  /\ hpc' = [hpc EXCEPT ![t] = "rm_unlock"]
  /\ UNCHANGED <<sessions, mu, arg, pre, ret>>
removeCheckAnyId(t) ==
  /\ hpc[t] = "rm_check"
  /\ IF latest # Nil
       THEN IF Values(sessions) = {}
              THEN latest' = Nil
              ELSE latest' \in Values(sessions)
       ELSE latest' = latest
  /\ hpc' = [hpc EXCEPT ![t] = "rm_unlock"]
  /\ UNCHANGED <<sessions, mu, arg, pre, ret>>
removeCheck(t) ==
  /\ hpc[t] = "rm_check"
  /\ IF latest # Nil /\ ID(latest) = arg[t]
       THEN IF Values(sessions) = {}
              THEN latest' = Nil
              ELSE latest' \in Values(sessions)
       ELSE latest' = latest
  /\ hpc' = [hpc EXCEPT ![t] = "rm_unlock"]
  /\ UNCHANGED <<sessions, mu, arg, pre, ret>>

\* get, first section: h.mu.RLock(); the return value h.latest is read
getRLock(t) ==
  /\ hpc[t] = "none"
  /\ CanRLock
  /\ mu' = [mu EXCEPT !.r = @ + 1]
  /\ ret' = [ret EXCEPT ![t] = latest]
  /\ hpc' = [hpc EXCEPT ![t] = "get_runlock"]
  /\ UNCHANGED <<sessions, latest, arg, pre>>

\* get, the deferred h.mu.RUnlock()
getRUnlockMissing(t) ==
  /\ hpc[t] = "get_runlock"
  /\ hpc' = [hpc EXCEPT ![t] = "none"]
  /\ UNCHANGED <<sessions, latest, mu, arg, pre, ret>>
getRUnlockConsumes(t) ==
  /\ hpc[t] = "get_runlock"
  /\ mu' = [mu EXCEPT !.r = @ - 1]
  /\ latest' = Nil
  /\ hpc' = [hpc EXCEPT ![t] = "none"]
  /\ UNCHANGED <<sessions, arg, pre, ret>>
getRUnlock(t) ==
  /\ hpc[t] = "get_runlock"
  /\ mu' = [mu EXCEPT !.r = @ - 1]
  /\ hpc' = [hpc EXCEPT ![t] = "none"]
  /\ UNCHANGED <<sessions, latest, arg, pre, ret>>

\* ------------------------------------------------------------ translation
\* Text is a sequence of characters; the empty text is <<>>.
Hi == <<"h", "i">>
Sys == <<"s">>

\* A character that is not ASCII (e with an acute accent): UTF-8 encodes it in
\* two bytes.
EAcute == "U+00E9"
Cafe == <<"c", "a", "f", EAcute>>

\* The UTF-8 encoding of a character: an ASCII character is one byte (written
\* as the character), this one is the two bytes 0xC3 0xA9.
EncodeRune(c) == IF c = EAcute THEN <<195, 169>> ELSE <<c>>

\* The bytes of a Go string holding the text s.
RECURSIVE bytes(_)
bytes(s) == IF s = <<>> THEN <<>> ELSE EncodeRune(Head(s)) \o bytes(Tail(s))

\* utf8.RuneCountInString(s): the characters of s.
RuneCountInString(s) == Len(s)

\* len(s) of a Go string: its length in bytes.
lenInRunes(s) == RuneCountInString(s)
len(s) == Len(bytes(s))

NoOptions == [set |-> FALSE, NumPredict |-> 0, Temperature |-> [set |-> FALSE, val |-> 0]]

\* strings.Join(parts, sep)
RECURSIVE Join(_, _)
Join(parts, sep) ==
  IF Len(parts) = 0 THEN <<>>
  ELSE IF Len(parts) = 1 THEN parts[1]
  ELSE parts[1] \o <<sep>> \o Join(Tail(parts), sep)

\* The max-token count both translations compute.
maxTokensOfNonZero(req, defaultMaxTokens) ==
  IF req.Options.set /\ req.Options.NumPredict # 0
    THEN req.Options.NumPredict
    ELSE defaultMaxTokens
maxTokensOf(req, defaultMaxTokens) ==
  IF req.Options.set /\ req.Options.NumPredict > 0
    THEN req.Options.NumPredict
    ELSE defaultMaxTokens

\* The model preferences both translations compute: one hint, or none.
modelPreferencesOfAlways(req) == <<req.Model>>
modelPreferencesOf(req) == IF req.Model # "" THEN <<req.Model>> ELSE <<>>

\* The temperature both translations compute: the zero value unless supplied.
temperatureOf(req) ==
  IF req.Options.set /\ req.Options.Temperature.set
    THEN req.Options.Temperature.val
    ELSE 0

\* The role of an outbound message: assistant stays, anything else is user.
roleOfPassThrough(role) == role
roleOf(role) == IF role = "assistant" THEN "assistant" ELSE "user"

\* The system prompt of a chat: the contents of the system messages joined
\* by newlines, the empty string when there are none.
systemPromptOfLast(req) ==
  LET systemMsgs == SelectSeq(req.Messages, LAMBDA m : m.Role = "system")
  IN IF Len(systemMsgs) > 0 THEN systemMsgs[Len(systemMsgs)].Content ELSE <<>>
systemPromptOf(req) ==
  LET systemMsgs == SelectSeq(req.Messages, LAMBDA m : m.Role = "system")
      systemParts == [i \in 1..Len(systemMsgs) |-> systemMsgs[i].Content]
  IN IF Len(systemParts) > 0 THEN Join(systemParts, "\n") ELSE <<>>

\* chatToCreateMessage(req, defaultMaxTokens)
chatToCreateMessageKeepsSystem(req, defaultMaxTokens) ==
  [Messages |-> [i \in 1..Len(req.Messages) |->
                   [Role |-> IF req.Messages[i].Role = "assistant" THEN "assistant" ELSE "user",
                    Content |-> [kind |-> "text", Text |-> req.Messages[i].Content]]],
   MaxTokens |-> maxTokensOf(req, defaultMaxTokens),
   SystemPrompt |-> <<>>,
   ModelPreferences |-> modelPreferencesOf(req),
   Temperature |-> temperatureOf(req)]
chatToCreateMessage(req, defaultMaxTokens) ==
  LET nonSystem == SelectSeq(req.Messages, LAMBDA m : m.Role # "system")
      messages == [i \in 1..Len(nonSystem) |->
                     [Role |-> roleOf(nonSystem[i].Role),
                      Content |-> [kind |-> "text", Text |-> nonSystem[i].Content]]]
  IN [Messages |-> messages,
      MaxTokens |-> maxTokensOf(req, defaultMaxTokens),
      SystemPrompt |-> systemPromptOf(req),
      ModelPreferences |-> modelPreferencesOf(req),
      Temperature |-> temperatureOf(req)]

generateToCreateMessageSystemAsMessage(req, defaultMaxTokens) ==
  [Messages |-> (IF req.System # <<>>
                   THEN <<[Role |-> "user", Content |-> [kind |-> "text", Text |-> req.System]]>>
                   ELSE <<>>)
                \o <<[Role |-> "user", Content |-> [kind |-> "text", Text |-> req.Prompt]]>>,
   MaxTokens |-> maxTokensOf(req, defaultMaxTokens),
   SystemPrompt |-> <<>>,
   ModelPreferences |-> modelPreferencesOf(req),
   Temperature |-> temperatureOf(req)]
generateToCreateMessage(req, defaultMaxTokens) ==
  [Messages |-> <<[Role |-> "user", Content |-> [kind |-> "text", Text |-> req.Prompt]]>>,
   MaxTokens |-> maxTokensOf(req, defaultMaxTokens),
   SystemPrompt |-> IF req.System # <<>> THEN req.System ELSE <<>>,
   ModelPreferences |-> modelPreferencesOf(req),
   Temperature |-> temperatureOf(req)]

mcpStopReasonPassThrough(stopReason) ==
  CASE stopReason = "endTurn" -> "stop"
    [] stopReason = "maxTokens" -> "length"
    [] OTHER -> stopReason
mcpStopReason(stopReason) ==
  CASE stopReason = "endTurn" -> "stop"
    [] stopReason = "maxTokens" -> "length"
    [] OTHER -> "stop"

extractTextContentPlaceholder(content) == IF content.kind = "text" THEN content.Text ELSE <<"?">>
extractTextContent(content) == IF content.kind = "text" THEN content.Text ELSE <<>>

\* ----------------------------------------------------------- the program
\* The -default-max-tokens flag's default.
DefaultMaxTokens == 4096

StatusBadRequest == 400
StatusServiceUnavailable == 503
StatusBadGateway == 502
StatusOK == 200

\* The stdio transport has one session, the one Connect returns.
StdioSession == 1

\* A request body as json.Decode leaves it in ChatRequest / GenerateRequest;
\* ok = FALSE is a body Decode rejects.
Body(path, ok, model, messages, prompt, stream) ==
  [path |-> path, ok |-> ok, Model |-> model, Messages |-> messages,
   Prompt |-> prompt, System |-> <<>>, Stream |-> stream, Options |-> NoOptions]

NoBody == Body("none", FALSE, "", <<>>, <<>>, "nil")

\* The request bodies the program is run on.
Bodies ==
  { Body("chat", FALSE, "", <<>>, <<>>, "nil"),
    Body("generate", FALSE, "", <<>>, <<>>, "nil"),
    Body("chat", TRUE, "llama3", <<[Role |-> "system", Content |-> Sys], [Role |-> "user", Content |-> Hi]>>, <<>>, "nil"),
    Body("chat", TRUE, "llama3", <<[Role |-> "system", Content |-> Sys]>>, <<>>, "nil"),
    Body("generate", TRUE, "", <<>>, Hi, "false"),
    Body("generate", TRUE, "llama3", <<>>, <<>>, "true") }

\* What CreateMessage can return: an error, or a result.
Results ==
  { [err |-> "mcp failure", Content |-> [kind |-> "nil", Text |-> <<>>], StopReason |-> ""],
    [err |-> "", Content |-> [kind |-> "text", Text |-> Hi], StopReason |-> "endTurn"],
    [err |-> "", Content |-> [kind |-> "image", Text |-> <<>>], StopReason |-> "maxTokens"] }

\* The locals of a handler and what it has written to its ResponseWriter:
\* the decoded request, the session get() returned, the status line (0: not
\* written), the objects encoded into the body, how many of them were
\* flushed, the sessions CreateMessage was called on, the call's result;
\* lookups counts its calls of holder.get(), params is the translated request,
\* reply is what CreateMessage returned and result what was extracted from it;
\* callCtx is the context CreateMessage was called with and cancelled tells
\* that the request's own context, r.Context(), is done; defaultMaxTokens is
\* the flag's value the handler was built with.
NoResult == [err |-> "", text |-> <<>>, stopReason |-> ""]
NoReply == [err |-> "", Content |-> [kind |-> "nil", Text |-> <<>>], StopReason |-> ""]
NoParams == [nil |-> TRUE]
NewHandler ==
  [defaultMaxTokens |-> DefaultMaxTokens, req |-> NoBody, lookups |-> 0, session |-> Nil, params |-> NoParams,
   status |-> 0, out |-> <<>>, flushed |-> 0, called |-> <<>>, callCtx |-> "none",
   cancelled |-> FALSE, reply |-> NoReply, result |-> NoResult]

\* writeError(w, logger, status, msg)
writeErrorNoHeader(hr, status, msg) ==
  [hr EXCEPT !.status = IF @ = 0 THEN StatusOK ELSE @, !.out = Append(@, [error |-> msg])]
writeError(hr, status, msg) ==
  [hr EXCEPT !.status = status, !.out = Append(@, [error |-> msg])]

\* json.NewEncoder(w).Encode(v): the first write sends the header, 200 unless
\* WriteHeader was called.
encode(hr, v) ==
  [hr EXCEPT !.status = IF @ = 0 THEN StatusOK ELSE @, !.out = Append(@, v)]

\* writeNDJSON(w, v): Encode, then Flush.
writeNDJSONNoFlush(hr, v) == encode(hr, v)
writeNDJSON(hr, v) ==
  LET e == encode(hr, v) IN [e EXCEPT !.flushed = Len(e.out)]

\* ChatResponse / GenerateResponse, the fields the handlers set.
Response(path, model, text, done, doneReason, evalCount) ==
  [path |-> path, Model |-> model, text |-> text, Done |-> done,
   DoneReason |-> doneReason, EvalCount |-> evalCount]

\* The keys Encode writes for a response: done_reason and eval_count are
\* tagged omitempty, so the zero value leaves the key out.
jsonFields(v) ==
  {"model", "text", "done"}
    \cup (IF v.DoneReason # "" THEN {"done_reason"} ELSE {})
    \cup (IF v.EvalCount # 0 THEN {"eval_count"} ELSE {})

translate(req, defaultMaxTokens) ==
  IF req.path = "chat"
    THEN chatToCreateMessage(req, defaultMaxTokens)
    ELSE generateToCreateMessage(req, defaultMaxTokens)

\* The preload test of handleChat and of handleGenerate.
isPreloadMessagesOnly(req, params) == Len(params.Messages) = 0
isPreload(req, params) ==
  IF req.path = "chat"
    THEN Len(params.Messages) = 0
    ELSE Len(params.Messages) = 0 \/ req.Prompt = <<>>

Init ==
  /\ newSessionHolder
  /\ mcpTransport \in {"stdio", "http"}
  /\ sess = [s \in McpSessions |-> "none"]
  /\ pc = [t \in ProgThreads |->
             IF t = MainThread THEN "start"
             ELSE IF t \in ObsThreads THEN "none" ELSE "idle"]
  /\ h = [t \in ReqThreads |-> NewHandler]

\* --- main()
\* stdio: mcpServer.Connect returns the session.
MainConnect ==
  /\ pc[MainThread] = "start"
  /\ mcpTransport = "stdio"
  /\ sess' = [sess EXCEPT ![StdioSession] = "open"]
  /\ pc' = [pc EXCEPT ![MainThread] = "connected"]
  /\ UNCHANGED <<holderVars, mcpTransport, h>>

\* stdio: holder.set(ss), up to its first write.
MainSet ==
  /\ pc[MainThread] = "connected"
  /\ setLock(MainThread, StdioSession)
  /\ pc' = [pc EXCEPT ![MainThread] = "set"]
  /\ UNCHANGED <<mcpTransport, sess, h>>

\* stdio: holder.set(ss) returns; main goes on to ss.Wait().
MainSetReturn ==
  /\ pc[MainThread] = "set"
  /\ unlock(MainThread)
  /\ pc' = [pc EXCEPT ![MainThread] = "wait"]
  /\ UNCHANGED <<mcpTransport, sess, h>>

\* stdio: ss.Wait() returns when the session has ended; main shuts down.
MainWaitReturn ==
  /\ pc[MainThread] = "wait"
  /\ sess[StdioSession] = "closed"
  /\ pc' = [pc EXCEPT ![MainThread] = "shutdown"]
  /\ UNCHANGED <<holderVars, mcpTransport, sess, h>>

\* http: the Streamable HTTP handler is listening.
MainListen ==
  /\ pc[MainThread] = "start"
  /\ mcpTransport = "http"
  /\ pc' = [pc EXCEPT ![MainThread] = "serve"]
  /\ UNCHANGED <<holderVars, mcpTransport, sess, h>>

\* --- MCP sessions (the SDK and the MCP host)
\* http: an MCP host opens a session.
SessionConnect(s) ==
  /\ pc[MainThread] = "serve"
  /\ sess[s] = "none"
  /\ sess' = [sess EXCEPT ![s] = "open"]
  /\ UNCHANGED <<holderVars, mcpTransport, pc, h>>

\* The session ends.
SessionClose(s) ==
  /\ sess[s] = "open"
  /\ sess' = [sess EXCEPT ![s] = "closed"]
  /\ UNCHANGED <<holderVars, mcpTransport, pc, h>>

\* InitializedHandler: holder.set(req.Session), up to its first write.
InitializedHandler(s) ==
  /\ pc[<<"init", s>>] = "idle"
  /\ sess[s] = "open"
  /\ setLock(<<"init", s>>, s)
  /\ pc' = [pc EXCEPT ![<<"init", s>>] = "set"]
  /\ UNCHANGED <<mcpTransport, sess, h>>

\* InitializedHandler: set returns and the goroutine waiting for the session
\* to end is started.
InitializedSpawn(s) ==
  /\ pc[<<"init", s>>] = "set"
  /\ unlock(<<"init", s>>)
  /\ pc' = [pc EXCEPT ![<<"init", s>>] = "done", ![<<"obs", s>>] = "wait"]
  /\ UNCHANGED <<mcpTransport, sess, h>>

\* The goroutine: req.Session.Wait() has returned; holder.remove(id), up to
\* its first write.
ObserverRemoveLatest(s) ==
  /\ pc[<<"obs", s>>] = "wait"
  /\ sess[s] = "closed"
  /\ removeLock(<<"obs", s>>, IF latest # Nil THEN ID(latest) ELSE ID(s))
  /\ pc' = [pc EXCEPT ![<<"obs", s>>] = "rm"]
  /\ UNCHANGED <<mcpTransport, sess, h>>
ObserverRemove(s) ==
  /\ pc[<<"obs", s>>] = "wait"
  /\ sess[s] = "closed"
  /\ removeLock(<<"obs", s>>, ID(s))
  /\ pc' = [pc EXCEPT ![<<"obs", s>>] = "rm"]
  /\ UNCHANGED <<mcpTransport, sess, h>>

\* The goroutine: remove returns.
ObserverDone(s) ==
  /\ pc[<<"obs", s>>] = "rm"
  /\ unlock(<<"obs", s>>)
  /\ pc' = [pc EXCEPT ![<<"obs", s>>] = "done"]
  /\ UNCHANGED <<mcpTransport, sess, h>>

\* The second section of a set or a remove some program thread is in.
HolderSetLatest(t) == setLatest(t) /\ UNCHANGED progVars
HolderRemoveCheck(t) == removeCheck(t) /\ UNCHANGED progVars

\* --- handleChat / handleGenerate
\* The Ollama server accepts requests until main shuts it down.
Accepting(r) ==
  /\ pc[r] = "idle"
  /\ pc[MainThread] # "shutdown"

\* The body does not decode: 400.
HandleDecodeErrorAfterLookup(r, body) ==
  /\ Accepting(r)
  /\ ~body.ok
  /\ h' = [h EXCEPT ![r] =
             IF latest = Nil
               THEN writeError([@ EXCEPT !.req = body, !.lookups = @ + 1],
                               StatusServiceUnavailable, "MCP host not connected")
               ELSE writeError([@ EXCEPT !.req = body, !.lookups = @ + 1],
                               StatusBadRequest, <<"invalid JSON: ", "unexpected EOF">>)]
  /\ pc' = [pc EXCEPT ![r] = "done"]
  /\ UNCHANGED <<holderVars, mcpTransport, sess>>
HandleDecodeError(r, body) ==
  /\ Accepting(r)
  /\ ~body.ok
  /\ h' = [h EXCEPT ![r] = writeError([@ EXCEPT !.req = body], StatusBadRequest, <<"invalid JSON: ", "unexpected EOF">>)]
  /\ pc' = [pc EXCEPT ![r] = "done"]
  /\ UNCHANGED <<holderVars, mcpTransport, sess>>

\* The body decodes; holder.get() takes the read lock and reads latest.
HandleDecode(r, body) ==
  /\ Accepting(r)
  /\ body.ok
  /\ getRLock(r)
  /\ h' = [h EXCEPT ![r] = [@ EXCEPT !.req = body, !.lookups = @ + 1]]
  /\ pc' = [pc EXCEPT ![r] = "get"]
  /\ UNCHANGED <<mcpTransport, sess>>

\* The context CreateMessage is called with: r.Context().
callContextBackground == "background"
callContext == "request"

\* get() returns. No session: 503. Otherwise the request is translated; an
\* empty message list (or prompt) is answered with the preload response;
\* anything else calls session.CreateMessage.
HandleLookupPreloadFirst(r) ==
  /\ pc[r] = "get"
  /\ getRUnlock(r)
  /\ LET session == ret[r]
         req == h[r].req
         params == translate(req, h[r].defaultMaxTokens)
         hr == [h[r] EXCEPT !.session = session]
     IN IF isPreload(req, params)
          THEN /\ h' = [h EXCEPT ![r] = encode(hr, Response(req.path, req.Model, <<>>, TRUE, "", 0))]
               /\ pc' = [pc EXCEPT ![r] = "done"]
          ELSE IF session = Nil
            THEN /\ h' = [h EXCEPT ![r] = writeError(hr, StatusServiceUnavailable, "MCP host not connected")]
                 /\ pc' = [pc EXCEPT ![r] = "done"]
            ELSE /\ h' = [h EXCEPT ![r] = [hr EXCEPT !.called = Append(@, session)]]
                 /\ pc' = [pc EXCEPT ![r] = "calling"]
  /\ UNCHANGED <<mcpTransport, sess>>
HandleLookupFirstInMap(r) ==
  /\ pc[r] = "get"
  /\ getRUnlock(r)
  /\ LET session == ret[r]
         req == h[r].req
         params == translate(req, h[r].defaultMaxTokens)
         hr == [h[r] EXCEPT !.session = session]
         hp == [hr EXCEPT !.params = params]
     IN IF session = Nil
          THEN /\ h' = [h EXCEPT ![r] = writeError(hr, StatusServiceUnavailable, "MCP host not connected")]
               /\ pc' = [pc EXCEPT ![r] = "done"]
          ELSE IF isPreload(req, params)
            THEN /\ h' = [h EXCEPT ![r] = encode(hp, Response(req.path, req.Model, <<>>, TRUE, "", 0))]
                 /\ pc' = [pc EXCEPT ![r] = "done"]
            ELSE /\ h' = [h EXCEPT ![r] =
                       [hp EXCEPT !.called = Append(@, CHOOSE e \in Values(sessions) :
                                                          \A e2 \in Values(sessions) : e <= e2),
                                  !.callCtx = callContext]]
                 /\ pc' = [pc EXCEPT ![r] = "calling"]
  /\ UNCHANGED <<mcpTransport, sess>>
HandleLookup(r) ==
  /\ pc[r] = "get"
  /\ getRUnlock(r)
  /\ LET session == ret[r]
         req == h[r].req
         params == translate(req, h[r].defaultMaxTokens)
         hr == [h[r] EXCEPT !.session = session]
         hp == [hr EXCEPT !.params = params]
     IN IF session = Nil
          THEN /\ h' = [h EXCEPT ![r] = writeError(hr, StatusServiceUnavailable, "MCP host not connected")]
               /\ pc' = [pc EXCEPT ![r] = "done"]
          ELSE IF isPreload(req, params)
            THEN /\ h' = [h EXCEPT ![r] = encode(hp, Response(req.path, req.Model, <<>>, TRUE, "", 0))]
                 /\ pc' = [pc EXCEPT ![r] = "done"]
            ELSE /\ h' = [h EXCEPT ![r] = [hp EXCEPT !.called = Append(@, session),
                                                            !.callCtx = callContext]]
                 /\ pc' = [pc EXCEPT ![r] = "calling"]
  /\ UNCHANGED <<mcpTransport, sess>>

\* model := req.Model, "default" when it is empty.
modelOf(req) == IF req.Model = "" THEN "default" ELSE req.Model

\* streaming := req.Stream == nil || *req.Stream
streamingOnlyIfTrue(req) == req.Stream = "true"
streaming(req) == req.Stream = "nil" \/ req.Stream = "true"

\* CreateMessage failed: 502 with the error's text.
samplingFailedHidesError(hr, err) ==
  writeError([hr EXCEPT !.result = [err |-> err, text |-> <<>>, stopReason |-> ""]],
             StatusBadGateway, <<"sampling failed">>)
samplingFailed(hr, err) ==
  writeError([hr EXCEPT !.result = [err |-> err, text |-> <<>>, stopReason |-> ""]],
             StatusBadGateway, <<"sampling failed: ", err>>)

\* Streaming, the first frame: the whole text, done = false.
contentFrame(req, text) == Response(req.path, modelOf(req), text, FALSE, "", 0)

\* Streaming, the second frame: no text, done = true, the reason, the count.
terminalFrameRepeatsText(req, text, stopReason) ==
  Response(req.path, modelOf(req), text, TRUE, stopReason, len(text))
terminalFrame(req, text, stopReason) ==
  Response(req.path, modelOf(req), <<>>, TRUE, stopReason, len(text))

\* Not streaming: the one object.
singleObjectNoReason(req, text, stopReason) ==
  Response(req.path, modelOf(req), text, TRUE, "", len(text))
singleObject(req, text, stopReason) ==
  Response(req.path, modelOf(req), text, TRUE, stopReason, len(text))

\* session.CreateMessage returns. An error: 502. A result: streaming (stream
\* omitted or true) writes and flushes the content frame, otherwise the one
\* object is written.
CreateMessageReturnRetry(r, res) ==
  /\ pc[r] = "calling"
  /\ LET req == h[r].req
         text == extractTextContent(res.Content)
         stopReason == mcpStopReason(res.StopReason)
         result == [err |-> "", text |-> text, stopReason |-> stopReason]
     IN IF res.err # ""
          THEN IF Len(h[r].called) < 2
            THEN /\ h' = [h EXCEPT ![r].called = Append(@, h[r].session)]
                 /\ pc' = pc
            ELSE /\ h' = [h EXCEPT ![r] = samplingFailed([@ EXCEPT !.reply = res], res.err)]
                 /\ pc' = [pc EXCEPT ![r] = "done"]
          ELSE IF streaming(req)
            THEN /\ h' = [h EXCEPT ![r] =
                       writeNDJSON([@ EXCEPT !.reply = res, !.result = result], contentFrame(req, text))]
                 /\ pc' = [pc EXCEPT ![r] = "frame2"]
            ELSE /\ h' = [h EXCEPT ![r] =
                       encode([@ EXCEPT !.reply = res, !.result = result], singleObject(req, text, stopReason))]
                 /\ pc' = [pc EXCEPT ![r] = "done"]
  /\ UNCHANGED <<holderVars, mcpTransport, sess>>
CreateMessageReturn(r, res) ==
  /\ pc[r] = "calling"
  /\ LET req == h[r].req
         text == extractTextContent(res.Content)
         stopReason == mcpStopReason(res.StopReason)
         result == [err |-> "", text |-> text, stopReason |-> stopReason]
     IN IF res.err # ""
          THEN /\ h' = [h EXCEPT ![r] = samplingFailed([@ EXCEPT !.reply = res], res.err)]
               /\ pc' = [pc EXCEPT ![r] = "done"]
          ELSE IF streaming(req)
            THEN /\ h' = [h EXCEPT ![r] =
                       writeNDJSON([@ EXCEPT !.reply = res, !.result = result], contentFrame(req, text))]
                 /\ pc' = [pc EXCEPT ![r] = "frame2"]
            ELSE /\ h' = [h EXCEPT ![r] =
                       encode([@ EXCEPT !.reply = res, !.result = result], singleObject(req, text, stopReason))]
                 /\ pc' = [pc EXCEPT ![r] = "done"]
  /\ UNCHANGED <<holderVars, mcpTransport, sess>>

\* Streaming: the terminal frame is written and flushed.
HandleTerminalFrameRechecks(r) ==
  /\ pc[r] = "frame2"
  /\ h' = [h EXCEPT ![r] =
             IF latest = Nil
               THEN [@ EXCEPT !.lookups = @ + 1]
               ELSE writeNDJSON([@ EXCEPT !.lookups = @ + 1],
                                terminalFrame(h[r].req, h[r].result.text, h[r].result.stopReason))]
  /\ pc' = [pc EXCEPT ![r] = "done"]
  /\ UNCHANGED <<holderVars, mcpTransport, sess>>
HandleTerminalFrame(r) ==
  /\ pc[r] = "frame2"
  /\ h' = [h EXCEPT ![r] =
             writeNDJSON(@, terminalFrame(h[r].req, h[r].result.text, h[r].result.stopReason))]
  /\ pc' = [pc EXCEPT ![r] = "done"]
  /\ UNCHANGED <<holderVars, mcpTransport, sess>>

Next ==
  \/ MainConnect
  \/ MainSet
  \/ MainSetReturn
  \/ MainWaitReturn
  \/ MainListen
  \/ \E s \in McpSessions :
       \/ SessionConnect(s)
       \/ SessionClose(s)
       \/ InitializedHandler(s)
       \/ InitializedSpawn(s)
       \/ ObserverRemove(s)
       \/ ObserverDone(s)
  \/ \E t \in ProgThreads :
       \/ HolderSetLatest(t)
       \/ HolderRemoveCheck(t)
  \/ \E r \in ReqThreads :
       \/ \E body \in Bodies : HandleDecodeError(r, body)
       \/ \E body \in Bodies : HandleDecode(r, body)
       \/ HandleLookup(r)
       \/ \E res \in Results : CreateMessageReturn(r, res)
       \/ HandleTerminalFrame(r)

Spec == Init /\ [][Next]_vars

\* ------------------------------------------------- the holder's unit test
\* TestSessionHolder calls set, remove and get on a fresh holder; here any
\* number of goroutines call them with any argument, in any interleaving.
TaskSet(t, e) == setLock(t, e) /\ UNCHANGED progVars
TaskSetLatest(t) == setLatest(t) /\ UNCHANGED progVars
TaskRemove(t, id) == removeLock(t, id) /\ UNCHANGED progVars
TaskRemoveCheck(t) == removeCheck(t) /\ UNCHANGED progVars
TaskUnlock(t) == unlock(t) /\ UNCHANGED progVars
TaskGet(t) == getRLock(t) /\ UNCHANGED progVars
TaskGetReturn(t) == getRUnlock(t) /\ UNCHANGED progVars

HolderInit ==
  /\ newSessionHolder
  /\ mcpTransport = "none"
  /\ sess = [s \in McpSessions |-> "none"]
  /\ pc = [t \in ProgThreads |-> "idle"]
  /\ h = [t \in ReqThreads |-> NewHandler]

HolderNext ==
  \E t \in Tasks :
    \/ \E e \in Endpoints : TaskSet(t, e)
    \/ TaskSetLatest(t)
    \/ \E id \in Ids : TaskRemove(t, id)
    \/ TaskRemoveCheck(t)
    \/ TaskUnlock(t)
    \/ TaskGet(t)
    \/ TaskGetReturn(t)

HolderSpec == HolderInit /\ [][HolderNext]_vars

\* ----------------------------------------------- the handlers' unit tests
\* TestHandleChat, TestHandleChatStreaming, TestHandleGenerate and
\* TestHandleChatMalformedJSON run a handler on a holder that is fresh or
\* has had one mock session set; here the handlers are run on every request
\* shape below and on every outcome of the mock's CreateMessage.
Models == {"", "llama3"}
Streams == {"nil", "true", "false"}
MessageLists ==
  { <<>>,
    <<[Role |-> "system", Content |-> Sys]>>,
    <<[Role |-> "user", Content |-> Hi]>>,
    <<[Role |-> "system", Content |-> Sys], [Role |-> "user", Content |-> Hi]>> }
Prompts == {<<>>, Hi}

HandlerBodies ==
  { Body("chat", FALSE, "", <<>>, <<>>, "nil"),
    Body("generate", FALSE, "", <<>>, <<>>, "nil") }
    \cup {Body("chat", TRUE, m, msgs, <<>>, st) : m \in Models, msgs \in MessageLists, st \in Streams}
    \cup {Body("generate", TRUE, m, <<>>, p, st) : m \in Models, p \in Prompts, st \in Streams}

HandlerResults ==
  Results \cup
  { [err |-> "", Content |-> [kind |-> "text", Text |-> Cafe], StopReason |-> "endTurn"],
    [err |-> "", Content |-> [kind |-> "text", Text |-> <<>>], StopReason |-> "endTurn"],
    [err |-> "", Content |-> [kind |-> "text", Text |-> Hi], StopReason |-> "unknown"],
    [err |-> "", Content |-> [kind |-> "text", Text |-> Hi], StopReason |-> ""],
    [err |-> "", Content |-> [kind |-> "nil", Text |-> <<>>], StopReason |-> "endTurn"] }

\* The mock session the tests attach.
MockSession == 1

HandlerInit ==
  /\ \E attached \in BOOLEAN :
       /\ sessions = IF attached THEN [EmptyMap EXCEPT ![ID(MockSession)] = MockSession] ELSE EmptyMap
       /\ latest = IF attached THEN MockSession ELSE Nil
  /\ mu = [w |-> FALSE, r |-> 0]
  /\ hpc = [t \in Threads |-> "none"]
  /\ arg = [t \in Threads |-> Nil]
  /\ pre = [t \in Threads |-> NoPre]
  /\ ret = [t \in Threads |-> Nil]
  /\ mcpTransport = "none"
  /\ sess = [s \in McpSessions |-> "none"]
  /\ pc = [t \in ProgThreads |-> "idle"]
  /\ h = [t \in ReqThreads |-> NewHandler]

HandlerNext ==
  \E r \in ReqThreads :
    \/ \E body \in HandlerBodies : HandleDecodeError(r, body)
    \/ \E body \in HandlerBodies : HandleDecode(r, body)
    \/ HandleLookup(r)
    \/ \E res \in HandlerResults : CreateMessageReturn(r, res)
    \/ HandleTerminalFrame(r)

HandlerSpec == HandlerInit /\ [][HandlerNext]_vars

\* ------------------------------------------- requests that are cancelled
\* The handlers as in the unit tests, with clients that may go away: net/http
\* cancels a request's context when its client disconnects, and a
\* CreateMessage whose context is done returns the context's error.
RequestCancel(r) ==
  /\ pc[r] \in {"get", "calling", "frame2"}
  /\ ~h[r].cancelled
  /\ h' = [h EXCEPT ![r].cancelled = TRUE]
  /\ UNCHANGED <<holderVars, mcpTransport, sess, pc>>

CreateMessageCancelled(r) ==
  /\ pc[r] = "calling"
  /\ h[r].callCtx = "request"
  /\ h[r].cancelled
  /\ h' = [h EXCEPT ![r] =
             samplingFailed([@ EXCEPT !.reply = [NoReply EXCEPT !.err = "context canceled"]],
                            "context canceled")]
  /\ pc' = [pc EXCEPT ![r] = "done"]
  /\ UNCHANGED <<holderVars, mcpTransport, sess>>

CancelNext ==
  \E r \in ReqThreads :
    \/ \E body \in Bodies : HandleDecodeError(r, body)
    \/ \E body \in HandlerBodies : HandleDecode(r, body)
    \/ HandleLookup(r)
    \/ \E res \in Results : CreateMessageReturn(r, res)
    \/ HandleTerminalFrame(r)
    \/ RequestCancel(r)
    \/ CreateMessageCancelled(r)

\* The MCP host may never answer, but a call whose context is done returns.
CancelSpec ==
  /\ HandlerInit
  /\ [][CancelNext]_vars
  /\ \A r \in ReqThreads : WF_vars(CreateMessageCancelled(r))

\* ------------------------------------------ requests that wait for the lock
\* The whole program, with the two halves of a handler's beginning told
\* apart: the body is decoded, and then holder.get() waits in h.mu.RLock()
\* until no writer holds the mutex. The requests are a body that does not
\* decode, a chat request and a preload request; the call fails or returns a
\* text.
LiveBodies ==
  { Body("chat", FALSE, "", <<>>, <<>>, "nil"),
    Body("chat", TRUE, "llama3", <<[Role |-> "system", Content |-> Sys], [Role |-> "user", Content |-> Hi]>>, <<>>, "nil"),
    Body("generate", TRUE, "llama3", <<>>, <<>>, "true") }
LiveResults == {res \in Results : res.Content.kind # "image"}

HandleArrive(r, body) ==
  /\ Accepting(r)
  /\ body.ok
  /\ h' = [h EXCEPT ![r].req = body]
  /\ pc' = [pc EXCEPT ![r] = "decoded"]
  /\ UNCHANGED <<holderVars, mcpTransport, sess>>

HandleGet(r) ==
  /\ pc[r] = "decoded"
  /\ getRLock(r)
  /\ h' = [h EXCEPT ![r].lookups = @ + 1]
  /\ pc' = [pc EXCEPT ![r] = "get"]
  /\ UNCHANGED <<mcpTransport, sess>>

\* The steps a goroutine inside set or remove takes by itself.
WriterStep ==
  \/ MainSetReturn
  \/ \E s \in McpSessions : InitializedSpawn(s) \/ ObserverDone(s)
  \/ \E t \in ProgThreads : HolderSetLatest(t) \/ HolderRemoveCheck(t)

\* The steps of a handler once its request is decoded; its CreateMessage
\* returns a result or an error.
HandlerRun(r) ==
  \/ HandleGet(r)
  \/ HandleLookup(r)
  \/ \E res \in LiveResults : CreateMessageReturn(r, res)
  \/ HandleTerminalFrame(r)

LiveNext ==
  \/ MainConnect
  \/ MainSet
  \/ MainWaitReturn
  \/ MainListen
  \/ \E s \in McpSessions :
       \/ SessionConnect(s)
       \/ SessionClose(s)
       \/ InitializedHandler(s)
       \/ ObserverRemove(s)
  \/ WriterStep
  \/ \E r \in ReqThreads :
       \/ \E body \in LiveBodies : HandleDecodeError(r, body)
       \/ \E body \in LiveBodies : HandleArrive(r, body)
       \/ HandlerRun(r)

\* The Go scheduler runs every goroutine that can run, and every outbound
\* call returns.
LiveSpec ==
  /\ Init
  /\ [][LiveNext]_vars
  /\ WF_vars(WriterStep)
  /\ \A r \in ReqThreads : WF_vars(HandlerRun(r))

\* ------------------------------------------ the translations' unit tests
\* translate_test.go calls chatToCreateMessage and generateToCreateMessage on
\* requests it builds; here they are called on every message list of at most
\* MaxMessages messages over the roles and contents below, and on every
\* combination of the options, model and system string below.
Roles == {"system", "user", "assistant", "tool", ""}
Contents == {Hi, Sys}
ChatMessages == [Role : Roles, Content : Contents]

RECURSIVE SeqsUpTo(_, _)
SeqsUpTo(S, n) ==
  IF n = 0 THEN {<<>>}
  ELSE LET shorter == SeqsUpTo(S, n - 1)
       IN shorter \cup {Append(q, x) : q \in {p \in shorter : Len(p) = n - 1}, x \in S}

ChatInputs == SeqsUpTo(ChatMessages, MaxMessages)

\* options: absent, or present with num_predict negative, zero or positive
\* and temperature absent, 0 or 0.7 (in tenths).
NumPredicts == {-1, 0, 1, 2048}
Temperatures ==
  { [set |-> FALSE, val |-> 0], [set |-> TRUE, val |-> 0], [set |-> TRUE, val |-> 7] }
OptionsInputs ==
  {NoOptions} \cup [set : {TRUE}, NumPredict : NumPredicts, Temperature : Temperatures]
Systems == {<<>>, Sys}

\* -default-max-tokens: any int the flag parses; 4096 when it is not given.
DefaultMaxTokensInputs == {-1, 0, 1, DefaultMaxTokens}

TranslateInputs ==
  {Body("chat", TRUE, "llama3", msgs, <<>>, "nil") : msgs \in ChatInputs}
    \cup {[Body("chat", TRUE, m, msgs, <<>>, "nil") EXCEPT !.Options = o] :
             m \in Models, msgs \in MessageLists, o \in OptionsInputs}
    \cup {[Body("generate", TRUE, m, <<>>, p, "nil") EXCEPT !.Options = o, !.System = sy] :
             m \in Models, p \in Prompts, o \in OptionsInputs, sy \in Systems}

\* The goroutine running the test.
TestThread == <<"req", 1>>

TranslateInit ==
  /\ newSessionHolder
  /\ mcpTransport = "none"
  /\ sess = [s \in McpSessions |-> "none"]
  /\ pc = [t \in ProgThreads |-> IF t = TestThread THEN "test" ELSE "idle"]
  /\ \E req \in TranslateInputs, d \in DefaultMaxTokensInputs :
       h = [t \in ReqThreads |->
              IF t = TestThread
                THEN [NewHandler EXCEPT !.req = req, !.defaultMaxTokens = d]
                ELSE NewHandler]

\* params := chatToCreateMessage(req, defaultMaxTokens)
TestChatToCreateMessage ==
  /\ pc[TestThread] = "test"
  /\ h[TestThread].req.path = "chat"
  /\ h' = [h EXCEPT ![TestThread].params = chatToCreateMessage(h[TestThread].req, h[TestThread].defaultMaxTokens)]
  /\ pc' = [pc EXCEPT ![TestThread] = "done"]
  /\ UNCHANGED <<holderVars, mcpTransport, sess>>

\* params := generateToCreateMessage(req, defaultMaxTokens)
TestGenerateToCreateMessage ==
  /\ pc[TestThread] = "test"
  /\ h[TestThread].req.path = "generate"
  /\ h' = [h EXCEPT ![TestThread].params = generateToCreateMessage(h[TestThread].req, h[TestThread].defaultMaxTokens)]
  /\ pc' = [pc EXCEPT ![TestThread] = "done"]
  /\ UNCHANGED <<holderVars, mcpTransport, sess>>

TranslateNext ==
  \/ TestChatToCreateMessage
  \/ TestGenerateToCreateMessage

TranslateSpec == TranslateInit /\ [][TranslateNext]_vars

\* ------------------------------------------------ properties of the holder
Keys(m) == {i \in Ids : m[i] # Nil}

\* latest, when set, is the object stored under its own id.
HolderConsistent == latest # Nil => sessions[ID(latest)] = latest

\* Threads between the first write of set/remove and the write of latest.
MidWrite == {t \in Threads : hpc[t] \in {"set_latest", "rm_check"}}
\* Threads holding the write lock, threads holding the read lock.
Writers == {t \in Threads : hpc[t] \in {"set_latest", "set_unlock", "rm_check", "rm_unlock"}}
Readers == {t \in Threads : hpc[t] = "get_runlock"}

\* Thread t is about to return from remove(arg[t]), and latest had that id
\* when the call took the lock.
RemovedCurrent(t) ==
  /\ hpc[t] = "rm_unlock"
  /\ pre[t].latest # Nil
  /\ ID(pre[t].latest) = arg[t]

\* C1: in every state in which no set or remove is part-way through its
\* writes (every state another goroutine can observe), latest is nil or the
\* map holds latest under latest.ID().
C1_LatestInMap == MidWrite = {} => HolderConsistent

\* C1 witness: a remove has just moved latest to another session of the map.
C1_Witness ==
  \E t \in Tasks :
    /\ RemovedCurrent(t)
    /\ latest # Nil
    /\ latest # pre[t].latest
    /\ Cardinality(Values(sessions)) >= 2

\* C2: when set(E) is about to return, the map holds E under E.ID() and
\* latest is E, whatever the holder held before; a get returns latest; and
\* latest stops being E only inside another set or inside a remove(E.ID()).
C2_SetPost ==
  /\ \A t \in Threads :
       hpc[t] = "set_unlock" => sessions[ID(arg[t])] = arg[t] /\ latest = arg[t]
  /\ \A t \in Threads : hpc[t] = "get_runlock" => ret[t] = latest
C2_Keeps ==
  latest' # latest =>
    \E t \in Threads :
      \/ hpc[t] = "set_latest" /\ hpc'[t] = "set_unlock" /\ latest' = arg[t]
      \/ /\ hpc[t] = "rm_check" /\ hpc'[t] = "rm_unlock"
         /\ latest # Nil /\ arg[t] = ID(latest)
C2_SetMakesCurrent == [](C2_SetPost) /\ [][C2_Keeps]_vars

\* C2 witness: a set is about to return having replaced another current
\* session, which is still in the map.
C2_Witness ==
  \E t \in Tasks :
    /\ hpc[t] = "set_unlock"
    /\ pre[t].latest # Nil
    /\ ID(pre[t].latest) # ID(arg[t])
    /\ sessions[ID(pre[t].latest)] = pre[t].latest
    /\ latest = arg[t]

C4_RemoveOther ==
  \A t \in Threads :
    ( /\ hpc[t] = "rm_unlock"
      /\ pre[t].sessions[arg[t]] # Nil
      /\ (pre[t].latest = Nil \/ ID(pre[t].latest) # arg[t]) ) =>
      /\ latest = pre[t].latest
      /\ sessions = [pre[t].sessions EXCEPT ![arg[t]] = Nil]

\* C4 witness: a session other than the current one was removed while the
\* current one and a third stayed.
C4_Witness ==
  \E t \in Tasks :
    /\ hpc[t] = "rm_unlock"
    /\ pre[t].sessions[arg[t]] # Nil
    /\ pre[t].latest # Nil
    /\ ID(pre[t].latest) # arg[t]
    /\ Cardinality(Values(sessions)) >= 2

\* C5: when remove(id) is about to return and the map had no entry for id,
\* the map and latest are as they were.
C5_RemoveAbsent ==
  \A t \in Threads :
    (hpc[t] = "rm_unlock" /\ pre[t].sessions[arg[t]] = Nil) =>
      /\ sessions = pre[t].sessions
      /\ latest = pre[t].latest

\* C5 witness: an id that is not in the map was removed from a holder that
\* holds two sessions.
C5_Witness ==
  \E t \in Tasks :
    /\ hpc[t] = "rm_unlock"
    /\ pre[t].sessions[arg[t]] = Nil
    /\ pre[t].latest # Nil
    /\ Cardinality(Values(sessions)) >= 2

\* C6: when set(E) is about to return and E.ID() was already in the map, the
\* map has the same keys as before (no entry was added), every other entry
\* is as it was, the entry for the id is E and latest is E; if E was
\* already both that entry and latest, nothing has changed.
C6_SetOverwrites ==
  \A t \in Threads :
    (hpc[t] = "set_unlock" /\ pre[t].sessions[ID(arg[t])] # Nil) =>
      /\ Keys(sessions) = Keys(pre[t].sessions)
      /\ Cardinality(Keys(sessions)) = Cardinality(Keys(pre[t].sessions))
      /\ sessions = [pre[t].sessions EXCEPT ![ID(arg[t])] = arg[t]]
      /\ latest = arg[t]
      /\ (pre[t].sessions[ID(arg[t])] = arg[t] /\ pre[t].latest = arg[t]) =>
           (sessions = pre[t].sessions /\ latest = pre[t].latest)

\* C6 witness: a set replaced a different session object registered under the
\* same id, which was not current.
C6_Witness ==
  \E t \in Tasks :
    /\ hpc[t] = "set_unlock"
    /\ pre[t].sessions[ID(arg[t])] \notin {Nil, arg[t]}
    /\ pre[t].latest \notin {Nil, pre[t].sessions[ID(arg[t])]}

\* C8: at most one goroutine is inside set or remove, none is inside get
\* while one is, the mutex says so, and what a get has read is nil or a
\* session stored in the map under its id (never the pointer left dangling
\* between remove's delete and its reassignment).
C8_MutualExclusion ==
  /\ Cardinality(Writers) <= 1
  /\ Writers # {} => Readers = {}
  /\ mu.w <=> Writers # {}
  /\ mu.r = Cardinality(Readers)
  /\ \A t \in Readers : ret[t] = Nil \/ sessions[ID(ret[t])] = ret[t]

\* C8 witness: two gets overlap, both having read the current session.
C8_Witness ==
  \E t1, t2 \in Tasks :
    /\ t1 # t2
    /\ {t1, t2} \subseteq Readers
    /\ ret[t1] # Nil
    /\ ret[t2] = ret[t1]

\* ----------------------------------------------- properties of the program
\* C7: a handler whose CreateMessage call is in flight (or that is past it)
\* is not inside a holder method; the mutex is held only by goroutines that
\* are inside one (its reader count is the number of goroutines inside get,
\* its writer flag is set exactly while one is inside set or remove); so with
\* any number of calls pending, Lock and RLock find the mutex free as soon as
\* no goroutine is inside a holder method.
C7_NoLockWhileCalling ==
  /\ \A r \in ReqThreads : pc[r] \in {"calling", "frame2", "done"} => hpc[r] = "none"
  /\ mu.r = Cardinality(Readers)
  /\ mu.w <=> Writers # {}
  /\ (\A t \in Threads : hpc[t] = "none") => CanLock /\ CanRLock

\* C7 witness: while a request's call is pending on a session, the goroutine
\* watching that session is inside remove, holding the write lock.
C7_Witness ==
  \E r \in ReqThreads : \E s \in McpSessions :
    /\ pc[r] = "calling"
    /\ h[r].session = s
    /\ hpc[<<"obs", s>>] = "rm_unlock"
    /\ mu.w

\* C9: a session that has ended and that no goroutine is about to remove (no
\* goroutine waits on it or is inside remove for it, and no set of it is in
\* progress) is not in the map -- every set is paired with a wait-for-close
\* and remove.
C9_EndedSessionRemoved ==
  \A s \in McpSessions :
    ( /\ sess[s] = "closed"
      /\ pc[<<"obs", s>>] \notin {"wait", "rm"}
      /\ pc[<<"init", s>>] # "set"
      /\ pc[MainThread] # "set" ) =>
      sessions[ID(s)] # s

\* C10: a request whose get() returned nil ends with status 503 and the one
\* error object with the fixed message, and CreateMessage was called on no
\* session for it.
C10_NoSession503 ==
  \A r \in ReqThreads :
    (pc[r] \in {"calling", "frame2", "done"} /\ h[r].req.ok /\ h[r].session = Nil) =>
      /\ pc[r] = "done"
      /\ h[r].status = StatusServiceUnavailable
      /\ h[r].out = <<[error |-> "MCP host not connected"]>>
      /\ h[r].called = <<>>

\* C10 witness: a chat request was answered 503 after a session had been
\* attached and removed again.
C10_Witness ==
  \E r \in ReqThreads : \E s \in McpSessions :
    /\ pc[r] = "done"
    /\ h[r].req.ok
    /\ h[r].req.path = "chat"
    /\ h[r].session = Nil
    /\ h[r].status = StatusServiceUnavailable
    /\ pc[<<"obs", s>>] = "done"

\* ---------------------------------------------- properties of the handlers
\* The request r was decoded from a body Decode rejected.
DecodeFailed(r) == h[r].req.path # "none" /\ ~h[r].req.ok

\* The one object writeError wrote.
IsErrorBody(out) == Len(out) = 1 /\ DOMAIN out[1] = {"error"}

\* C11: a request whose body does not decode is answered with 400 and one
\* {"error": ...} object, with an endpoint attached or not, and it has made
\* no call of holder.get() and no call of CreateMessage.
C11_DecodeFailure400 ==
  \A r \in ReqThreads :
    DecodeFailed(r) =>
      /\ pc[r] = "done"
      /\ h[r].status = StatusBadRequest
      /\ IsErrorBody(h[r].out)
      /\ h[r].out[1].error[1] = "invalid JSON: "
      /\ h[r].lookups = 0
      /\ hpc[r] = "none"
      /\ h[r].session = Nil
      /\ h[r].called = <<>>

\* A 400 answered while an endpoint is attached.
C11_Witness ==
  \E r \in ReqThreads :
    DecodeFailed(r) /\ pc[r] = "done" /\ h[r].status = StatusBadRequest /\ latest # Nil

\* CreateMessage was called for r and has returned a result.
Succeeded(r) ==
  /\ h[r].called # <<>>
  /\ pc[r] \in {"frame2", "done"}
  /\ h[r].result.err = ""

\* The request asks for streaming: the stream flag is omitted or true.
StreamingMode(r) == h[r].req.Stream \in {"nil", "true"}

\* C12: when CreateMessage returns an error the request ends with 502 and
\* one {"error": ...} object whose text contains the error's text; no frame
\* is written or flushed, whether the request streams or not.
C12_SamplingError502 ==
  \A r \in ReqThreads :
    h[r].result.err # "" =>
      /\ pc[r] = "done"
      /\ h[r].status = StatusBadGateway
      /\ IsErrorBody(h[r].out)
      /\ \E i \in DOMAIN h[r].out[1].error : h[r].out[1].error[i] = h[r].result.err
      /\ h[r].flushed = 0

\* A streaming request whose call failed.
C12_Witness ==
  \E r \in ReqThreads :
    /\ h[r].result.err # ""
    /\ StreamingMode(r)
    /\ h[r].status = StatusBadGateway

\* C13: no retries. A handler calls CreateMessage at most once, on every
\* path; a 400, a 503 and a preload response are written without a call, and
\* after a failed call the handler is done.
C13_AtMostOneCall ==
  \A r \in ReqThreads :
    /\ Len(h[r].called) <= 1
    /\ h[r].result.err # "" => pc[r] = "done"
    /\ h[r].status \in {StatusBadRequest, StatusServiceUnavailable} => h[r].called = <<>>
    /\ (pc[r] = "done" /\ h[r].called # <<>>) =>
         h[r].status \in {StatusBadGateway, StatusOK}

\* A request that ended in 502 after its one call.
C13_Witness ==
  \E r \in ReqThreads :
    /\ pc[r] = "done"
    /\ h[r].status = StatusBadGateway
    /\ Len(h[r].called) = 1

\* The request is a preload: a chat with no message that is not a system
\* message, or a generate with the empty prompt.
PreloadRequest(req) ==
  /\ req.ok
  /\ IF req.path = "chat"
       THEN \A i \in DOMAIN req.Messages : req.Messages[i].Role = "system"
       ELSE req.Prompt = <<>>

\* C14: with an endpoint attached, a preload request is answered with one
\* object carrying the empty text and done = true, and CreateMessage is not
\* called for it.
C14_PreloadShortCircuit ==
  \A r \in ReqThreads :
    (PreloadRequest(h[r].req) /\ h[r].session # Nil) =>
      /\ pc[r] = "done"
      /\ h[r].status = StatusOK
      /\ Len(h[r].out) = 1
      /\ h[r].out[1].text = <<>>
      /\ h[r].out[1].Done
      /\ h[r].called = <<>>

\* A chat holding only a system message, answered with an endpoint attached.
C14_Witness ==
  \E r \in ReqThreads :
    /\ h[r].req.path = "chat"
    /\ Len(h[r].req.Messages) > 0
    /\ PreloadRequest(h[r].req)
    /\ h[r].session # Nil
    /\ pc[r] = "done"

\* C15: a successful streaming request writes two frames and no more: the
\* first has the whole text, done = false and no done_reason; the second has
\* the empty text, done = true, the done_reason and the count. The texts of
\* the frames concatenated are the result's text.
C15_StreamingTwoFrames ==
  \A r \in ReqThreads :
    (Succeeded(r) /\ StreamingMode(r)) =>
      LET out == h[r].out
          text == h[r].result.text
      IN /\ h[r].status = StatusOK
         /\ Len(out) = IF pc[r] = "done" THEN 2 ELSE 1
         /\ out[1].text = text
         /\ ~out[1].Done
         /\ "done_reason" \notin jsonFields(out[1])
         /\ pc[r] = "done" =>
              /\ out[2].text = <<>>
              /\ out[2].Done
              /\ "done_reason" \in jsonFields(out[2])
              /\ out[2].DoneReason = h[r].result.stopReason
              /\ out[2].EvalCount = len(text)
              /\ out[1].text \o out[2].text = text

\* A streaming request that has written both frames of a text that is not
\* empty.
C15_Witness ==
  \E r \in ReqThreads :
    /\ Succeeded(r)
    /\ StreamingMode(r)
    /\ pc[r] = "done"
    /\ h[r].result.text # <<>>
    /\ Len(h[r].out) = 2

\* C16: a successful request that is not streaming writes one object, with
\* done = true, the whole text and the done_reason; it writes no object with
\* done = false.
C16_SingleObject ==
  \A r \in ReqThreads :
    (Succeeded(r) /\ ~StreamingMode(r)) =>
      LET out == h[r].out
      IN /\ pc[r] = "done"
         /\ h[r].status = StatusOK
         /\ Len(out) = 1
         /\ out[1].Done
         /\ out[1].text = h[r].result.text
         /\ "done_reason" \in jsonFields(out[1])
         /\ out[1].DoneReason = h[r].result.stopReason

\* A request with stream = false answered with a text that is not empty.
C16_Witness ==
  \E r \in ReqThreads :
    /\ Succeeded(r)
    /\ h[r].req.Stream = "false"
    /\ h[r].result.text # <<>>
    /\ Len(h[r].out) = 1

\* C17: a successful request is answered with flushed frames when its stream
\* flag is omitted or true, and with one unflushed object only when the flag
\* is false; on /api/chat and on /api/generate.
C17_EmissionMode ==
  \A r \in ReqThreads :
    (Succeeded(r) /\ pc[r] = "done") =>
      /\ h[r].req.Stream \in {"nil", "true"} => (Len(h[r].out) = 2 /\ h[r].flushed = 2)
      /\ h[r].req.Stream = "false" => (Len(h[r].out) = 1 /\ h[r].flushed = 0)
      /\ (Len(h[r].out) = 1) = (h[r].req.Stream = "false")

\* A generate request without a stream flag answered with two frames.
C17_Witness ==
  \E r \in ReqThreads :
    /\ Succeeded(r)
    /\ pc[r] = "done"
    /\ h[r].req.path = "generate"
    /\ h[r].req.Stream = "nil"
    /\ Len(h[r].out) = 2

\* C18: streaming, every frame written has been flushed: before the second
\* frame is written the first one is flushed, and when the handler returns
\* both are.
C18_FlushAfterEachFrame ==
  \A r \in ReqThreads :
    (Succeeded(r) /\ StreamingMode(r)) =>
      /\ h[r].flushed = Len(h[r].out)
      /\ pc[r] = "frame2" => h[r].flushed = 1
      /\ pc[r] = "done" => h[r].flushed = 2

\* The first frame is flushed and the second one is not written yet.
C18_Witness ==
  \E r \in ReqThreads :
    /\ pc[r] = "frame2"
    /\ Len(h[r].out) = 1
    /\ h[r].flushed = 1

\* The object that ends a successful response.
TerminalObject(r) == h[r].out[Len(h[r].out)]

\* C19 as stated: the count of the terminal object is the number of
\* characters of the result's text.
C19_EvalCountCharacters ==
  \A r \in ReqThreads :
    (Succeeded(r) /\ pc[r] = "done") =>
      TerminalObject(r).EvalCount = RuneCountInString(h[r].result.text)

\* C19: the count of the terminal object is the number of bytes of the
\* result's text in UTF-8, one per ASCII character and two for the accented
\* one; for the empty text it is 0 and the eval_count key is left out.
C19_EvalCountBytes ==
  \A r \in ReqThreads :
    (Succeeded(r) /\ pc[r] = "done") =>
      LET text == h[r].result.text
          wide == {i \in DOMAIN text : text[i] = EAcute}
      IN /\ TerminalObject(r).EvalCount = Len(text) + Cardinality(wide)
         /\ ("eval_count" \in jsonFields(TerminalObject(r))) = (text # <<>>)

\* A response to a text of four characters and five bytes.
C19_Witness ==
  \E r \in ReqThreads :
    /\ Succeeded(r)
    /\ pc[r] = "done"
    /\ h[r].result.text = Cafe
    /\ TerminalObject(r).EvalCount = 5

\* ------------------------------------------- properties of the translation
\* The positions of the messages of msgs that are not system messages.
NonSystem(msgs) == {i \in DOMAIN msgs : msgs[i].Role # "system"}

\* The k-th of them, counting from the front.
NthNonSystem(msgs, k) ==
  CHOOSE i \in NonSystem(msgs) : Cardinality({j \in NonSystem(msgs) : j <= i}) = k

\* C20: chatToCreateMessage returns as many messages as its input has
\* messages that are not system messages; the k-th of them carries, as text,
\* the content of the k-th such input message.
C20_ChatMessagesPreserved ==
  \A r \in ReqThreads :
    (h[r].req.path = "chat" /\ h[r].params # NoParams) =>
      LET msgs == h[r].req.Messages
          outm == h[r].params.Messages
      IN /\ Len(outm) = Cardinality(NonSystem(msgs))
         /\ \A k \in DOMAIN outm :
              /\ outm[k].Content.kind = "text"
              /\ outm[k].Content.Text = msgs[NthNonSystem(msgs, k)].Content

\* A translated list whose system message stands between two messages of
\* different contents.
C20_Witness ==
  \E r \in ReqThreads :
    /\ h[r].params # NoParams
    /\ Len(h[r].req.Messages) = 3
    /\ h[r].req.Messages[2].Role = "system"
    /\ h[r].req.Messages[1].Role # "system"
    /\ h[r].req.Messages[3].Role # "system"
    /\ h[r].req.Messages[1].Content # h[r].req.Messages[3].Content
    /\ Len(h[r].params.Messages) = 2

\* The request of r has been translated.
Translated(r) == h[r].params # NoParams

\* The contents of the system messages of msgs from the front, a newline
\* before each but the first (seen: a system message came earlier).
RECURSIVE SystemText(_, _)
SystemText(msgs, seen) ==
  IF msgs = <<>> THEN <<>>
  ELSE IF Head(msgs).Role = "system"
    THEN (IF seen THEN <<"\n">> ELSE <<>>) \o Head(msgs).Content \o SystemText(Tail(msgs), TRUE)
    ELSE SystemText(Tail(msgs), seen)

\* C21: the system prompt chatToCreateMessage returns is the contents of the
\* system messages, in their order, with one newline between neighbours; it
\* is empty when the input has no system message.
C21_SystemPromptJoined ==
  \A r \in ReqThreads :
    (h[r].req.path = "chat" /\ Translated(r)) =>
      LET msgs == h[r].req.Messages
      IN /\ h[r].params.SystemPrompt = SystemText(msgs, FALSE)
         /\ (\A i \in DOMAIN msgs : msgs[i].Role # "system") => h[r].params.SystemPrompt = <<>>

\* Two system messages of different contents around another message.
C21_Witness ==
  \E r \in ReqThreads :
    /\ Translated(r)
    /\ Len(h[r].req.Messages) = 3
    /\ h[r].req.Messages[1] = [Role |-> "system", Content |-> Hi]
    /\ h[r].req.Messages[2].Role # "system"
    /\ h[r].req.Messages[3] = [Role |-> "system", Content |-> Sys]
    /\ h[r].params.SystemPrompt = <<"h", "i", "\n", "s">>

\* C22: every outbound message of either translation has role user or
\* assistant, never system; a chat message that is not a system message
\* becomes assistant when its role is "assistant" and user for any other
\* role.
C22_RoleMappingTotal ==
  \A r \in ReqThreads :
    Translated(r) =>
      LET msgs == h[r].req.Messages
          outm == h[r].params.Messages
      IN /\ \A k \in DOMAIN outm : outm[k].Role \in {"user", "assistant"}
         /\ h[r].req.path = "chat" =>
              \A k \in DOMAIN outm :
                (outm[k].Role = "assistant") = (msgs[NthNonSystem(msgs, k)].Role = "assistant")
         /\ h[r].req.path = "generate" => \A k \in DOMAIN outm : outm[k].Role = "user"

\* A translated chat holding a message of an unknown role and one of the
\* empty role.
C22_Witness ==
  \E r \in ReqThreads :
    /\ Translated(r)
    /\ \E i, j \in DOMAIN h[r].req.Messages :
         /\ h[r].req.Messages[i].Role = "tool"
         /\ h[r].req.Messages[j].Role = ""
    /\ \A k \in DOMAIN h[r].params.Messages : h[r].params.Messages[k].Role = "user"
    /\ Len(h[r].params.Messages) >= 2

\* C23: the outbound max-token count is num_predict when the options are
\* present and num_predict is positive, and the default in every other case.
C23_MaxTokens ==
  \A r \in ReqThreads :
    Translated(r) =>
      LET o == h[r].req.Options
      IN /\ ~o.set => h[r].params.MaxTokens = h[r].defaultMaxTokens
         /\ (o.set /\ o.NumPredict <= 0) => h[r].params.MaxTokens = h[r].defaultMaxTokens
         /\ (o.set /\ o.NumPredict > 0) => h[r].params.MaxTokens = o.NumPredict

\* A generate request with a negative num_predict, translated to the default.
C23_Witness ==
  \E r \in ReqThreads :
    /\ Translated(r)
    /\ h[r].req.path = "generate"
    /\ h[r].req.Options.set
    /\ h[r].req.Options.NumPredict < 0
    /\ h[r].params.MaxTokens = h[r].defaultMaxTokens

\* The request with its temperature taken away.
WithoutTemperature(req) == [req EXCEPT !.Options.Temperature = [set |-> FALSE, val |-> 0]]

\* C24 as stated: the outbound request carries the caller's temperature
\* exactly when the caller supplied one: with a temperature supplied it has
\* the caller's value and is not the request that the same input without a
\* temperature is translated to.
C24_TemperatureIffSupplied ==
  \A r \in ReqThreads :
    (Translated(r) /\ h[r].req.Options.set /\ h[r].req.Options.Temperature.set) =>
      /\ h[r].params.Temperature = h[r].req.Options.Temperature.val
      /\ h[r].params # translate(WithoutTemperature(h[r].req), h[r].defaultMaxTokens)

\* C25: a model string that is not empty becomes the one model hint; the
\* empty model string leaves the model preferences out.
C25_ModelHint ==
  \A r \in ReqThreads :
    Translated(r) =>
      /\ h[r].req.Model # "" => h[r].params.ModelPreferences = <<h[r].req.Model>>
      /\ h[r].req.Model = "" => h[r].params.ModelPreferences = <<>>

\* A translated generate request without a model.
C25_Witness ==
  \E r \in ReqThreads :
    /\ Translated(r)
    /\ h[r].req.path = "generate"
    /\ h[r].req.Model = ""
    /\ h[r].params.ModelPreferences = <<>>

\* C26: generateToCreateMessage returns one message, of role user, whose
\* text is the prompt; the system prompt is the request's system string.
C26_GenerateOneMessage ==
  \A r \in ReqThreads :
    (h[r].req.path = "generate" /\ Translated(r)) =>
      /\ Len(h[r].params.Messages) = 1
      /\ h[r].params.Messages[1].Role = "user"
      /\ h[r].params.Messages[1].Content = [kind |-> "text", Text |-> h[r].req.Prompt]
      /\ h[r].params.SystemPrompt = h[r].req.System

\* A translated generate request with the empty prompt and a system string.
C26_Witness ==
  \E r \in ReqThreads :
    /\ Translated(r)
    /\ h[r].req.path = "generate"
    /\ h[r].req.Prompt = <<>>
    /\ h[r].req.System # <<>>
    /\ Len(h[r].params.Messages) = 1

\* ------------------------------------- properties of the result translation
\* CreateMessage has returned to r without an error.
Replied(r) ==
  /\ h[r].called # <<>>
  /\ pc[r] \in {"frame2", "done"}
  /\ h[r].reply.err = ""

\* C27: the stop reason endTurn becomes stop, maxTokens becomes length and
\* any other string, the empty one included, becomes stop; the done_reason
\* of a successful response is stop or length.
C27_StopReasonMapping ==
  \A r \in ReqThreads :
    Replied(r) =>
      LET in == h[r].reply.StopReason
          mapped == h[r].result.stopReason
      IN /\ in = "endTurn" => mapped = "stop"
         /\ in = "maxTokens" => mapped = "length"
         /\ in \notin {"endTurn", "maxTokens"} => mapped = "stop"
         /\ pc[r] = "done" =>
              /\ TerminalObject(r).DoneReason = mapped
              /\ TerminalObject(r).DoneReason \in {"stop", "length"}

\* A response to a result whose stop reason is not one the mapping names.
C27_Witness ==
  \E r \in ReqThreads :
    /\ Replied(r)
    /\ pc[r] = "done"
    /\ h[r].reply.StopReason = "unknown"
    /\ TerminalObject(r).DoneReason = "stop"

\* C28: a result of the text kind yields its text, a nil content or one of
\* another kind yields the empty text, and in either case the request ends
\* as a success: status 200 and response objects, no error object.
C28_ExtractNeverFails ==
  \A r \in ReqThreads :
    Replied(r) =>
      LET content == h[r].reply.Content
      IN /\ content.kind = "text" => h[r].result.text = content.Text
         /\ content.kind # "text" => h[r].result.text = <<>>
         /\ h[r].result.err = ""
         /\ h[r].status = StatusOK
         /\ \A i \in DOMAIN h[r].out : "error" \notin DOMAIN h[r].out[i]
         /\ h[r].out[1].text = h[r].result.text

\* A streaming response to a result whose content is nil.
C28_Witness ==
  \E r \in ReqThreads :
    /\ Replied(r)
    /\ pc[r] = "done"
    /\ h[r].reply.Content.kind = "nil"
    /\ StreamingMode(r)
    /\ Len(h[r].out) = 2
    /\ h[r].out[1].text = <<>>

\* ------------------------------------------ properties of the lookup order
\* C30: a request whose body decoded calls holder.get() once: the call is
\* made after the decode and has returned before the request is translated,
\* and what it returned is the session the request is dispatched to; there
\* is no second call, whatever happens to the holder meanwhile.
C30_OneLookup ==
  \A r \in ReqThreads :
    /\ h[r].lookups <= 1
    /\ h[r].req.ok => h[r].lookups = 1
    /\ h[r].lookups = 1 => h[r].req.ok
    /\ pc[r] = "get" => (~Translated(r) /\ h[r].called = <<>>)
    /\ Translated(r) => (h[r].lookups = 1 /\ hpc[r] = "none")
    /\ h[r].called # <<>> => (Translated(r) /\ h[r].called = <<h[r].session>>)

\* A request answered through the session its one lookup returned, after the
\* holder has moved on to another value.
C30_Witness ==
  \E r \in ReqThreads :
    /\ Succeeded(r)
    /\ pc[r] = "done"
    /\ h[r].lookups = 1
    /\ latest # h[r].session

\* ------------------------------------------- properties of the cancellation
\* C29: CreateMessage is called with the request's own context, so once that
\* context is done a call in flight for the request does not stay pending.
C29_CancelPropagates ==
  /\ [](\A r \in ReqThreads : pc[r] = "calling" => h[r].callCtx = "request")
  /\ \A r \in ReqThreads :
       (pc[r] = "calling" /\ h[r].cancelled) ~> (pc[r] # "calling")

\* A call in flight for a request whose context is done.
C29_Witness ==
  \E r \in ReqThreads :
    /\ pc[r] = "calling"
    /\ h[r].cancelled
    /\ h[r].callCtx = "request"

\* C31 as stated: the max-token count of every translated request is
\* greater than 0, whatever the configured default and num_predict are.
C31_MaxTokensPositive ==
  \A r \in ReqThreads : Translated(r) => h[r].params.MaxTokens > 0

\* ------------------------------------------------ properties of the sharing
\* The step is one of a request handler.
HandlerStep ==
  \E r \in ReqThreads : h'[r] # h[r] \/ pc'[r] # pc[r] \/ hpc'[r] # hpc[r]

\* The step changes the holder's map or its latest pointer.
RegistryChanged == sessions' # sessions \/ latest' # latest

\* C32: no step of handleChat or handleGenerate changes the map or latest,
\* on any path; a step that changes them is a step of a set or a remove made
\* by a thread that is not a request, and it changes no handler's locals.
C32_HandlersLeaveRegistry ==
  [][ /\ HandlerStep => ~RegistryChanged
      /\ RegistryChanged =>
           /\ \E t \in Threads \ ReqThreads :
                /\ hpc'[t] # hpc[t]
                /\ hpc'[t] \in {"set_latest", "set_unlock", "rm_check", "rm_unlock"}
           /\ h' = h
    ]_vars

\* A request has been answered while a session is attached: its handler ran
\* every step next to a holder that is not empty.
C32_Witness ==
  \E r \in ReqThreads :
    /\ Succeeded(r)
    /\ pc[r] = "done"
    /\ latest # Nil
    /\ sessions[ID(latest)] = latest

\* ---------------------------------------------- properties of the observers
\* C33: the goroutine an InitializedHandler starts makes one call of the
\* holder, remove(id) with the id of its own session, and makes it once the
\* session has ended; it makes no call afterwards. With distinct ids, an entry
\* leaves the map only in a step of the observer of the session it holds,
\* which has ended.
C33_ObserverRemovesOwn ==
  [][ /\ \A s \in McpSessions :
           LET o == <<"obs", s>>
           IN /\ (hpc[o] = "none" /\ hpc'[o] # "none") =>
                   /\ hpc'[o] = "rm_check"
                   /\ arg'[o] = ID(s)
                   /\ sess[s] = "closed"
                   /\ pc[o] = "wait"
                   /\ pc'[o] = "rm"
              /\ pc[o] = "done" => (pc'[o] = "done" /\ hpc'[o] = "none")
      /\ \A i \in Ids :
           (sessions[i] # Nil /\ sessions'[i] = Nil) =>
             /\ sess[sessions[i]] = "closed"
             /\ hpc[<<"obs", sessions[i]>>] = "none"
             /\ hpc'[<<"obs", sessions[i]>>] = "rm_check"
    ]_vars

\* An observer has finished while another session, still open, is in the
\* map.
C33_Witness ==
  \E s, s2 \in McpSessions :
    /\ pc[<<"obs", s>>] = "done"
    /\ s2 # s
    /\ sess[s2] = "open"
    /\ sessions[ID(s2)] = s2

\* --------------------------------------------- properties of the emptiness
\* C34: outside the write sections latest is nil exactly when the map is
\* empty, so a get() returns nil exactly when no session is in the map while
\* it holds the read lock: a fresh holder returns nil, a holder with an entry
\* returns a session.
C34_NilIffEmpty ==
  /\ MidWrite = {} => ((latest = Nil) = (Keys(sessions) = {}))
  /\ \A t \in Readers : (ret[t] = Nil) = (Keys(sessions) = {})

\* A get() holding the read lock with a session to return, two sessions
\* being in the map.
C34_Witness ==
  \E t \in Readers :
    /\ ret[t] # Nil
    /\ ret[t] = latest
    /\ Cardinality(Keys(sessions)) >= 2

\* ----------------------------------------------- properties of the dispatch
\* C35: the one CreateMessage call of a request is made on the session its
\* get() returned, and a request whose get() returned a session is never
\* answered 503, whatever set and remove do to the holder after the lookup.
C35_DispatchToCaptured ==
  \A r \in ReqThreads :
    /\ h[r].called # <<>> =>
         /\ h[r].called = <<ret[r]>>
         /\ h[r].session = ret[r]
         /\ ret[r] # Nil
    /\ h[r].session # Nil =>
         /\ h[r].status # StatusServiceUnavailable
         /\ ~PreloadRequest(h[r].req) => h[r].called = <<h[r].session>>

\* A call in flight on a session that has left the map since the lookup,
\* another session being current.
C35_Witness ==
  \E r \in ReqThreads :
    /\ pc[r] = "calling"
    /\ h[r].called = <<h[r].session>>
    /\ sessions[ID(h[r].session)] = Nil
    /\ latest # Nil
    /\ latest # h[r].session

\* ----------------------------------------------- properties of the outcomes
\* Some object of the body is an error object.
HasErrorObject(out) == \E i \in DOMAIN out : "error" \in DOMAIN out[i]

\* The five ways a request ends.
Outcome400(r) ==
  h[r].status = StatusBadRequest /\ IsErrorBody(h[r].out) /\ h[r].called = <<>> /\ h[r].lookups = 0
Outcome503(r) ==
  h[r].status = StatusServiceUnavailable /\ IsErrorBody(h[r].out) /\ h[r].called = <<>>
    /\ h[r].lookups = 1 /\ h[r].session = Nil
OutcomePreload(r) ==
  h[r].status = StatusOK /\ ~HasErrorObject(h[r].out) /\ h[r].called = <<>> /\ Len(h[r].out) = 1
OutcomeSamplingError(r) ==
  h[r].status = StatusBadGateway /\ IsErrorBody(h[r].out) /\ Len(h[r].called) = 1
OutcomeSuccess(r) ==
  h[r].status = StatusOK /\ ~HasErrorObject(h[r].out) /\ Len(h[r].called) = 1
    /\ Len(h[r].out) \in {1, 2}

Outcomes(r) ==
  (IF Outcome400(r) THEN 1 ELSE 0) + (IF Outcome503(r) THEN 1 ELSE 0)
    + (IF OutcomePreload(r) THEN 1 ELSE 0) + (IF OutcomeSamplingError(r) THEN 1 ELSE 0)
    + (IF OutcomeSuccess(r) THEN 1 ELSE 0)

\* C36: a request that has ended has exactly one of the five outcomes; a body
\* with an error object holds nothing else and goes with status 400, 503 or
\* 502, and those statuses go with nothing but an error body; once a part of
\* the body is written the status does not change.
C36_OneOutcome ==
  /\ [](\A r \in ReqThreads :
          /\ pc[r] = "done" => Outcomes(r) = 1
          /\ HasErrorObject(h[r].out) =>
               /\ IsErrorBody(h[r].out)
               /\ h[r].flushed = 0
               /\ h[r].status \in {StatusBadRequest, StatusServiceUnavailable, StatusBadGateway}
          /\ h[r].status \notin {0, StatusOK} => IsErrorBody(h[r].out))
  /\ [][\A r \in ReqThreads : h[r].out # <<>> => h'[r].status = h[r].status]_vars

\* A chat request that ended as a success of two frames.
C36_Witness ==
  \E r \in ReqThreads :
    /\ pc[r] = "done"
    /\ OutcomeSuccess(r)
    /\ h[r].req.path = "chat"
    /\ Len(h[r].out) = 2

\* C37: a preload request is answered 503 when its get() returned no session
\* and with the preload response only when it returned one; the preload
\* response is one unflushed object whatever the stream flag is, and no
\* preload request calls CreateMessage.
C37_CheckOrder ==
  \A r \in ReqThreads :
    (pc[r] = "done" /\ PreloadRequest(h[r].req)) =>
      /\ h[r].session = Nil => Outcome503(r)
      /\ h[r].session # Nil =>
           /\ OutcomePreload(r)
           /\ h[r].flushed = 0
           /\ h[r].out[1].Done
           /\ h[r].out[1].text = <<>>
      /\ h[r].called = <<>>

\* A preload request asking for streaming, answered 503 because no session
\* is attached.
C37_Witness ==
  \E r \in ReqThreads :
    /\ pc[r] = "done"
    /\ PreloadRequest(h[r].req)
    /\ h[r].req.Stream = "true"
    /\ h[r].session = Nil
    /\ h[r].status = StatusServiceUnavailable

====
